---- MODULE Spec2Model ----
(***************************************************************************)
(* Model of pandas_questions.py: the referendum pipeline                   *)
(*   load_data -> merge_regions_and_departments ->                         *)
(*   merge_referendum_and_areas -> compute_referendum_result_by_regions -> *)
(*   plot_referendum_map                                                   *)
(* The CSV files on disk are part of the state: every stage re-reads them. *)
(* A text is a sequence of characters; a cell is a typed value, as the     *)
(* data-table library holds it after type inference.                       *)
(***************************************************************************)
EXTENDS Naturals, Sequences, FiniteSets, TLC

VARIABLES disk, pc, locals, stdout, figure, call

vars == <<disk, pc, locals, stdout, figure, call>>

(***************************************************************************)
(* Bounds of the model: the largest number of rows of each input table.    *)
(***************************************************************************)
MaxRef == 2
MaxDep == 2
MaxReg == 1
MaxGeo == 1

(***************************************************************************)
(* Texts and cells                                                         *)
(***************************************************************************)
Digits == <<"0", "1", "2", "3", "4", "5", "6", "7", "8", "9">>

IsDigit(c) == \E i \in 1..Len(Digits) : Digits[i] = c

DigitVal(c) == (CHOOSE i \in 1..Len(Digits) : Digits[i] = c) - 1

\* a text the CSV reader and to_numeric take for an integer: digits only
IsNumericText(s) == Len(s) > 0 /\ \A i \in 1..Len(s) : IsDigit(s[i])

RECURSIVE ParseInt(_)
ParseInt(s) ==
    IF s = <<>> THEN 0
    ELSE ParseInt(SubSeq(s, 1, Len(s) - 1)) * 10 + DigitVal(s[Len(s)])

RECURSIVE FormatInt(_)
FormatInt(n) ==
    IF n < 10 THEN <<Digits[n + 1]>>
    ELSE FormatInt(n \div 10) \o <<Digits[(n % 10) + 1]>>

\* str() of a float64 holding a whole number: "1.0"
FormatFloat(n) == FormatInt(n) \o <<".", "0">>

Int(n) == [kind |-> "int", n |-> n, s |-> <<>>]
Float(n) == [kind |-> "float", n |-> n, s |-> <<>>]
Str(s) == [kind |-> "str", n |-> 0, s |-> s]
NaN == [kind |-> "nan", n |-> 0, s |-> <<>>]

IsNumber(cell) == cell.kind \in {"int", "float"}

SeqToSet(q) == {q[i] : i \in 1..Len(q)}

RECURSIVE Flatten(_)
Flatten(qq) == IF qq = <<>> THEN <<>> ELSE Head(qq) \o Flatten(Tail(qq))

\* the sequences of 1..n elements of S
SeqsUpTo(S, n) == UNION {[1..k -> S] : k \in 1..n}

(***************************************************************************)
(* Tables: a header (column names in order) and rows (column -> cell)      *)
(***************************************************************************)
\* a CSV or GeoJSON file: the header and the records, all texts
File(columns, rows) == [columns |-> columns, rows |-> rows]

\* a DataFrame; no stage sets an index, so every table keeps the default one
Table(columns, rows) == [columns |-> columns, rows |-> rows, index |-> "RangeIndex"]

EmptyTable == Table(<<>>, <<>>)

Returned(table) == [status |-> "returned", exc |-> "", table |-> table]
Raised(exc) == [status |-> "raised", exc |-> exc, table |-> EmptyTable]

\* exception propagation: a raised exception skips the rest of the function,
\* a returned table is handed to the statements that follow
Then(r, rest(_)) ==
    IF r.status = "raised" THEN r
    ELSE CHOOSE out \in {rest(t) : t \in {r.table}} : TRUE

Column(t, c) == [i \in 1..Len(t.rows) |-> t.rows[i][c]]

\* dtype of a column: int64, float64 (numbers with missing values) or object
Dtype(t, c) ==
    LET cells == SeqToSet(Column(t, c))
    IN  IF cells # {} /\ \A x \in cells : x.kind = "int" THEN "int64"
        ELSE IF (\E x \in cells : IsNumber(x)) /\ \A x \in cells : x.kind # "str"
             THEN "float64"
        ELSE "object"

\* pd.read_csv: a column whose every text is an integer becomes int64
\* (leading zeros are lost), any other column keeps its texts (object)
read_csv(raw) ==
    LET numeric(c) == \A i \in 1..Len(raw.rows) : IsNumericText(raw.rows[i][c])
    IN  Table(raw.columns,
              [i \in 1..Len(raw.rows) |->
                  [c \in DOMAIN raw.rows[i] |->
                      IF numeric(c) THEN Int(ParseInt(raw.rows[i][c]))
                      ELSE Str(raw.rows[i][c])]])

load_data == <<read_csv(disk.referendum), read_csv(disk.regions),
               read_csv(disk.departments)>>

(***************************************************************************)
(* Table operations of the library, as the stages use them                 *)
(***************************************************************************)
\* two merge keys are the same value: numbers by value, texts by characters
KeyEq(a, b) == IF IsNumber(a) /\ IsNumber(b) THEN a.n = b.n ELSE a = b

\* pd.merge refuses to join a numeric key column with a column of texts
MergeKeysCompatible(left, right, left_on, right_on) ==
    (Dtype(left, left_on) = "object") = (Dtype(right, right_on) = "object")

Suffixed(c, overlap, sfx) == IF c \in overlap THEN c \o sfx ELSE c

SuffixColumns(columns, overlap, sfx) ==
    [i \in 1..Len(columns) |-> Suffixed(columns[i], overlap, sfx)]

SuffixRow(row, overlap, sfx) ==
    [d \in {Suffixed(c, overlap, sfx) : c \in DOMAIN row} |->
        row[CHOOSE c \in DOMAIN row : Suffixed(c, overlap, sfx) = d]]

\* the rows of right, in order, whose key equals the key of the left row
MatchesOf(l, right, left_on, right_on) ==
    SelectSeq(right.rows, LAMBDA r : KeyEq(l[left_on], r[right_on]))

\* a numeric column that received missing values becomes float64
Upcast(rows, columns) ==
    [i \in 1..Len(rows) |->
        [c \in DOMAIN rows[i] |->
            IF /\ c \in columns
               /\ rows[i][c].kind = "int"
               /\ \E j \in 1..Len(rows) : rows[j][c].kind = "nan"
            THEN Float(rows[i][c].n)
            ELSE rows[i][c]]]

\* the rows a left row contributes to a left join: one per matching right
\* row, or one with missing right-hand values when nothing matches
LeftJoinRowsOf(l, right, left_on, right_on, overlap) ==
    LET lrow == SuffixRow(l, overlap, "_x")
        found == MatchesOf(l, right, left_on, right_on)
        rcols == {Suffixed(c, overlap, "_y") : c \in SeqToSet(right.columns)}
    IN  IF found = <<>> THEN <<lrow @@ [c \in rcols |-> NaN]>>
        ELSE [k \in 1..Len(found) |-> lrow @@ SuffixRow(found[k], overlap, "_y")]

\* pd.merge(left, right, left_on=..., right_on=..., how="left")
pd_merge(left, right, left_on, right_on) ==
    LET overlap == SeqToSet(left.columns) \cap SeqToSet(right.columns)
        rcols == SuffixColumns(right.columns, overlap, "_y")
        rows == Flatten([i \in 1..Len(left.rows) |->
                    LeftJoinRowsOf(left.rows[i], right, left_on, right_on, overlap)])
    IN  IF ~MergeKeysCompatible(left, right, left_on, right_on)
        THEN Raised("ValueError")
        ELSE Returned(Table(SuffixColumns(left.columns, overlap, "_x") \o rcols,
                            Upcast(rows, SeqToSet(rcols))))

\* DataFrame.drop(columns=...)
drop(t, columns) ==
    IF ~(columns \subseteq SeqToSet(t.columns)) THEN Raised("KeyError")
    ELSE Returned(Table(SelectSeq(t.columns, LAMBDA c : c \notin columns),
                        [i \in 1..Len(t.rows) |->
                            [c \in DOMAIN t.rows[i] \ columns |-> t.rows[i][c]]]))

\* DataFrame.rename(columns=...): names outside the mapping are kept
rename(t, mapping) ==
    LET new(c) == IF c \in DOMAIN mapping THEN mapping[c] ELSE c
    IN  Table([i \in 1..Len(t.columns) |-> new(t.columns[i])],
              [i \in 1..Len(t.rows) |->
                  [d \in {new(c) : c \in DOMAIN t.rows[i]} |->
                      t.rows[i][CHOOSE c \in DOMAIN t.rows[i] : new(c) = d]]])

\* DataFrame[[...]]: the listed columns, in the listed order
select(t, columns) ==
    IF ~(SeqToSet(columns) \subseteq SeqToSet(t.columns)) THEN Raised("KeyError")
    ELSE Returned(Table(columns,
                        [i \in 1..Len(t.rows) |->
                            [c \in SeqToSet(columns) |-> t.rows[i][c]]]))

(***************************************************************************)
(* Stage: merge_regions_and_departments                                    *)
(***************************************************************************)
AreaDropped == {"id_x", "region_code", "slug_x", "id_y", "slug_y"}

\* the renames with the two code columns exchanged
AreaRenamesSwapped == [code_y |-> "code_dep", code_x |-> "code_reg",
                       name_x |-> "name_dep", name_y |-> "name_reg"]

AreaRenames == [code_y |-> "code_reg", code_x |-> "code_dep",
                name_x |-> "name_dep", name_y |-> "name_reg"]

AreaColumns == <<"code_reg", "name_reg", "code_dep", "name_dep">>

\* lines 33-41: the left join of departments with regions, reduced to the
\* four area columns
area_fusion(regions, departments) ==
    Then(pd_merge(departments, regions, "region_code", "code"), LAMBDA fusion :
    Then(drop(fusion, AreaDropped), LAMBDA dropped :
    select(rename(dropped, AreaRenames), AreaColumns)))

\* the parameters are overwritten by a fresh load from disk before any use
merge_regions_and_departments(regions, departments) ==
    area_fusion(load_data[2], load_data[3])

(***************************************************************************)
(* Stage: merge_referendum_and_areas                                       *)
(***************************************************************************)
\* pd.to_numeric(..., errors="coerce") on one cell: a text that is no number
\* becomes a missing value
to_numeric(cell) ==
    IF cell.kind # "str" THEN cell
    ELSE IF IsNumericText(cell.s) THEN Int(ParseInt(cell.s))
    ELSE NaN

\* astype(str) on one cell
astype_str(cell) ==
    CASE cell.kind = "int" -> Str(FormatInt(cell.n))
      [] cell.kind = "float" -> Str(FormatFloat(cell.n))
      [] cell.kind = "nan" -> Str(<<"n", "a", "n">>)
      [] OTHER -> cell

\* pd.to_numeric(col, errors="coerce").fillna(col).astype(str): the numeric
\* column is float64 as soon as one text was no number, and then the whole
\* numbers of the column print with a fractional part
normalize_codes(t, c) ==
    LET num == [i \in 1..Len(t.rows) |-> to_numeric(t.rows[i][c])]
        float64 == \E i \in 1..Len(num) : num[i].kind \in {"nan", "float"}
        filled(i) == IF num[i].kind = "nan" THEN t.rows[i][c]
                     ELSE IF float64 THEN Float(num[i].n)
                     ELSE num[i]
    IN  Table(t.columns,
              [i \in 1..Len(t.rows) |->
                  [t.rows[i] EXCEPT ![c] = astype_str(filled(i))]])

startswith(cell, prefix) ==
    /\ cell.kind = "str"
    /\ Len(cell.s) >= Len(prefix)
    /\ SubSeq(cell.s, 1, Len(prefix)) = prefix

\* the filter without its negation: the overseas rows are the ones kept
overseas_filter_inverted(t) ==
    IF Dtype(t, "Department code") # "object" THEN Raised("AttributeError")
    ELSE Returned(Table(t.columns,
                        SelectSeq(t.rows,
                            LAMBDA r : startswith(r["Department code"], <<"Z">>))))

\* line 70: fusion[-fusion["Department code"].str.startswith("Z")]
\* (the .str accessor exists on columns of texts only)
overseas_filter(t) ==
    IF Dtype(t, "Department code") # "object" THEN Raised("AttributeError")
    ELSE Returned(Table(t.columns,
                        SelectSeq(t.rows,
                            LAMBDA r : ~startswith(r["Department code"], <<"Z">>))))

\* lines 62-70: normalize the area codes, join the ballots with the areas,
\* drop the overseas rows
referendum_fusion(referendum, areas) ==
    Then(Returned(normalize_codes(areas, "code_dep")), LAMBDA reg_and_dep :
    Then(pd_merge(referendum, reg_and_dep, "Department code", "code_dep"),
         LAMBDA fusion : overseas_filter(fusion)))

\* lines 54-72: the table merged on the left is the parameter referendum,
\* not the normalized ref (which is never read); the area table is rebuilt
\* from disk
merge_referendum_and_areas(referendum, regions_and_departments) ==
    LET ref == normalize_codes(load_data[1], "Department code")
    IN  Then(merge_regions_and_departments(load_data[2], load_data[3]),
             LAMBDA reg_and_dep : referendum_fusion(referendum, reg_and_dep))

(***************************************************************************)
(* Stage: compute_referendum_result_by_regions                             *)
(***************************************************************************)
SumColumns == <<"Registered", "Abstentions", "Null", "Choice A", "Choice B">>

\* DataFrame.groupby(key): the grouping itself is lazy
groupby(t, key) ==
    IF key \notin SeqToSet(t.columns) THEN Raised("KeyError") ELSE Returned(t)

ListAttributes == {"append", "clear", "copy", "count", "extend", "index",
                   "insert", "pop", "remove", "reverse", "sort"}

\* attribute access on a list object
list_getattr(items, name) ==
    IF name \in ListAttributes THEN Returned(EmptyTable)
    ELSE Raised("AttributeError")

\* lines 81-91: line 87 ends the assignment to reg; lines 88-89 are a
\* statement of their own, [[...]].sum().reset_index(), on a list literal
compute_referendum_result_by_regions(referendum_and_areas) ==
    Then(Returned(load_data[1]), LAMBDA referendum :
    Then(merge_regions_and_departments(load_data[2], load_data[3]),
         LAMBDA reg_and_dep :
    Then(merge_referendum_and_areas(referendum, reg_and_dep),
         LAMBDA ref_and_areas :
    Then(groupby(ref_and_areas, "name_reg"), LAMBDA reg :
    Then(list_getattr(<<SumColumns>>, "sum"), LAMBDA stmt :
    Returned(reg))))))

(***************************************************************************)
(* Stage: plot_referendum_map                                              *)
(***************************************************************************)
\* gpd.read_file: the polygons with their properties, all texts
read_file(raw) ==
    Table(raw.columns,
          [i \in 1..Len(raw.rows) |->
              [c \in DOMAIN raw.rows[i] |-> Str(raw.rows[i][c])]])

\* line 114: Choice A / (Choice B + Choice A) as float division; a missing
\* operand or 0/0 gives a missing value; the quotient is kept exact
rate(a, b) ==
    IF ~IsNumber(a) \/ ~IsNumber(b) THEN NaN
    ELSE IF b.n + a.n = 0 THEN NaN
    ELSE [kind |-> "quotient", n |-> a.n, s |-> <<>>, d |-> b.n + a.n]

with_rate(t) ==
    Table(Append(t.columns, "rate"),
          [i \in 1..Len(t.rows) |->
              t.rows[i] @@ [rate |-> rate(t.rows[i]["Choice A"],
                                          t.rows[i]["Choice B"])]])

\* lines 112-114: the polygons joined with the aggregate, plus the rate
geo_fusion(gdf, results) ==
    Then(pd_merge(gdf, results, "nom", "name_reg"),
         LAMBDA fusion : Returned(with_rate(fusion)))

\* lines 104-132: the result of line 109 is what is joined, not the parameter
plot_referendum_map(referendum_result_by_regions) ==
    Then(Returned(load_data[1]), LAMBDA referendum :
    Then(merge_regions_and_departments(load_data[2], load_data[3]),
         LAMBDA reg_and_dep :
    Then(merge_referendum_and_areas(referendum, reg_and_dep),
         LAMBDA ref_and_areas :
    Then(compute_referendum_result_by_regions(ref_and_areas),
         LAMBDA ref_res_by_regions :
    Then(Returned(read_file(disk.geojson)), LAMBDA gdf :
    geo_fusion(gdf, ref_res_by_regions))))))

(***************************************************************************)
(* Input files within the bounds                                           *)
(***************************************************************************)
RegionsHeader == <<"id", "code", "name", "slug">>
DepartmentsHeader == <<"id", "region_code", "code", "name", "slug">>
ReferendumHeader == <<"Department code", "Registered", "Abstentions", "Null",
                      "Choice A", "Choice B">>
GeoHeader == <<"nom", "geometry">>

RegionKinds ==
    {[code |-> <<"8", "4">>, name |-> <<"A", "R", "A">>],
     [code |-> <<"C", "O", "M">>, name |-> <<"O", "M">>]}

DepartmentKinds ==
    {[code |-> <<"0", "1">>, name |-> <<"A", "i", "n">>, region_code |-> rc]
        : rc \in {<<"8", "4">>, <<"C", "O", "M">>}}
    \cup
    {[code |-> <<"2", "A">>, name |-> <<"C", "S">>, region_code |-> rc]
        : rc \in {<<"8", "4">>, <<"C", "O", "M">>}}

VoteKinds ==
    {[Registered |-> <<"3">>, Abstentions |-> <<"1">>, Null |-> <<"0">>,
      ChoiceA |-> <<"2">>, ChoiceB |-> <<"1">>],
     [Registered |-> <<"1">>, Abstentions |-> <<"1">>, Null |-> <<"0">>,
      ChoiceA |-> <<"0">>, ChoiceB |-> <<"0">>]}

ReferendumCodes == {<<"1">>, <<"2", "A">>, <<"Z", "A">>}

ReferendumKinds == {[code |-> c, votes |-> v] : c \in ReferendumCodes, v \in VoteKinds}

GeoKinds == {<<"A", "R", "A">>, <<"O", "M">>}

RegionsFile(q) ==
    File(RegionsHeader,
          [i \in 1..Len(q) |-> [id |-> FormatInt(i), code |-> q[i].code,
                                name |-> q[i].name, slug |-> q[i].name]])

DepartmentsFile(q) ==
    File(DepartmentsHeader,
          [i \in 1..Len(q) |-> [id |-> FormatInt(i), region_code |-> q[i].region_code,
                                code |-> q[i].code, name |-> q[i].name,
                                slug |-> q[i].name]])

ReferendumFile(q) ==
    File(ReferendumHeader,
          [i \in 1..Len(q) |->
              ("Department code" :> q[i].code) @@
              ("Registered" :> q[i].votes.Registered) @@
              ("Abstentions" :> q[i].votes.Abstentions) @@
              ("Null" :> q[i].votes.Null) @@
              ("Choice A" :> q[i].votes.ChoiceA) @@
              ("Choice B" :> q[i].votes.ChoiceB)])

GeoFile(q) ==
    File(GeoHeader, [i \in 1..Len(q) |-> [nom |-> q[i], geometry |-> q[i]]])

RegionsFiles == {RegionsFile(q) : q \in SeqsUpTo(RegionKinds, MaxReg)}
DepartmentsFiles == {DepartmentsFile(q) : q \in SeqsUpTo(DepartmentKinds, MaxDep)}
ReferendumFiles == {ReferendumFile(q) : q \in SeqsUpTo(ReferendumKinds, MaxRef)}
GeoFiles == {GeoFile(q) : q \in SeqsUpTo(GeoKinds, MaxGeo)}

\* the tables a caller can hold: what the loader yields on some file
RegionsTables == {read_csv(f) : f \in RegionsFiles}
DepartmentsTables == {read_csv(f) : f \in DepartmentsFiles}
ReferendumTables == {read_csv(f) : f \in ReferendumFiles}

\* one fixed file of each kind, for the runs that vary the other files
SampleReferendumFile ==
    ReferendumFile(<<[code |-> <<"1">>, votes |-> CHOOSE v \in VoteKinds : v.ChoiceA # <<"0">>],
                     [code |-> <<"Z", "A">>, votes |-> CHOOSE v \in VoteKinds : v.ChoiceA # <<"0">>]>>)

SampleGeoFile == GeoFile(<<<<"A", "R", "A">>>>)

SampleAreas ==
    area_fusion(
        read_csv(RegionsFile(<<[code |-> <<"8", "4">>, name |-> <<"A", "R", "A">>]>>)),
        read_csv(DepartmentsFile(<<[code |-> <<"2", "A">>, name |-> <<"C", "S">>,
                                    region_code |-> <<"8", "4">>]>>))).table

SampleMerged == referendum_fusion(read_csv(SampleReferendumFile), SampleAreas).table

SampleResults ==
    Table(<<"name_reg">> \o SumColumns,
          <<("name_reg" :> Str(<<"A", "R", "A">>)) @@ ("Registered" :> Int(3)) @@
            ("Abstentions" :> Int(1)) @@ ("Null" :> Int(0)) @@
            ("Choice A" :> Int(2)) @@ ("Choice B" :> Int(1))>>)

(***************************************************************************)
(* State                                                                   *)
(***************************************************************************)
NoCall == [fn |-> "none", args |-> <<>>, result |-> Raised("")]

NoLocals == [referendum |-> EmptyTable, df_reg |-> EmptyTable, df_dep |-> EmptyTable,
             regions_and_departments |-> EmptyTable,
             referendum_and_areas |-> EmptyTable,
             referendum_results |-> EmptyTable, exception |-> ""]

\* the module is either run as a script ("main") or imported, and then its
\* functions are called from outside
InitProcess ==
    /\ pc \in {"main", "imported"}
    /\ locals = NoLocals
    /\ stdout = <<>>
    /\ figure = "none"
    /\ call = NoCall

Init ==
    /\ disk \in [referendum : ReferendumFiles, regions : RegionsFiles,
                 departments : DepartmentsFiles, geojson : GeoFiles]
    /\ InitProcess

\* the runs of the first two stages vary the area files only
InitAreas ==
    /\ disk \in [referendum : {SampleReferendumFile}, regions : RegionsFiles,
                 departments : DepartmentsFiles, geojson : {SampleGeoFile}]
    /\ InitProcess

(***************************************************************************)
(* The script, lines 137-150                                               *)
(***************************************************************************)
MainLoad ==
    /\ pc = "main"
    /\ locals' = [locals EXCEPT !.referendum = load_data[1],
                                !.df_reg = load_data[2],
                                !.df_dep = load_data[3]]
    /\ pc' = "loaded"
    /\ UNCHANGED <<disk, stdout, figure, call>>

MainAreas ==
    /\ pc = "loaded"
    /\ LET r == merge_regions_and_departments(locals.df_reg, locals.df_dep)
       IN  IF r.status = "raised"
           THEN /\ pc' = "crashed"
                /\ locals' = [locals EXCEPT !.exception = r.exc]
           ELSE /\ pc' = "areas"
                /\ locals' = [locals EXCEPT !.regions_and_departments = r.table]
    /\ UNCHANGED <<disk, stdout, figure, call>>

MainMerge ==
    /\ pc = "areas"
    /\ LET r == merge_referendum_and_areas(locals.referendum,
                                           locals.regions_and_departments)
       IN  IF r.status = "raised"
           THEN /\ pc' = "crashed"
                /\ locals' = [locals EXCEPT !.exception = r.exc]
           ELSE /\ pc' = "merged"
                /\ locals' = [locals EXCEPT !.referendum_and_areas = r.table]
    /\ UNCHANGED <<disk, stdout, figure, call>>

\* lines 144-150: aggregate, print, plot, show
MainAggregateAndReport ==
    /\ pc = "merged"
    /\ LET r == compute_referendum_result_by_regions(locals.referendum_and_areas)
           p == plot_referendum_map(r.table)
       IN  IF r.status = "raised"
           THEN /\ pc' = "crashed"
                /\ locals' = [locals EXCEPT !.exception = r.exc]
                /\ UNCHANGED <<stdout, figure>>
           ELSE /\ stdout' = Append(stdout, r.table)
                /\ IF p.status = "raised"
                   THEN /\ pc' = "crashed"
                        /\ locals' = [locals EXCEPT !.referendum_results = r.table,
                                                    !.exception = p.exc]
                        /\ UNCHANGED figure
                   ELSE /\ pc' = "done"
                        /\ locals' = [locals EXCEPT !.referendum_results = r.table]
                        /\ figure' = "shown"
    /\ UNCHANGED <<disk, call>>

(***************************************************************************)
(* Calls from an importing program: one call, any tables as arguments      *)
(***************************************************************************)
Call_merge_regions_and_departments ==
    /\ pc = "imported"
    /\ call = NoCall
    /\ \E regions \in RegionsTables, departments \in DepartmentsTables :
          call' = [fn |-> "merge_regions_and_departments",
                   args |-> <<regions, departments>>,
                   result |-> merge_regions_and_departments(regions, departments)]
    /\ UNCHANGED <<disk, pc, locals, stdout, figure>>

\* the area tables a caller can pass: the one the area stage yields on the
\* files, or another one
AreasArguments ==
    {SampleAreas} \cup
    {r.table : r \in {x \in {area_fusion(load_data[2], load_data[3])} :
                          x.status = "returned"}}

Call_merge_referendum_and_areas ==
    /\ pc = "imported"
    /\ call = NoCall
    /\ \E referendum \in ReferendumTables, regions_and_departments \in AreasArguments :
          call' = [fn |-> "merge_referendum_and_areas",
                   args |-> <<referendum, regions_and_departments>>,
                   result |-> merge_referendum_and_areas(referendum,
                                                         regions_and_departments)]
    /\ UNCHANGED <<disk, pc, locals, stdout, figure>>

\* the merged tables a caller can pass
MergedArguments ==
    {SampleMerged} \cup
    {r.table : r \in {x \in {merge_referendum_and_areas(load_data[1], SampleAreas)} :
                          x.status = "returned"}}

Call_compute_referendum_result_by_regions ==
    /\ pc = "imported"
    /\ call = NoCall
    /\ \E referendum_and_areas \in MergedArguments :
          call' = [fn |-> "compute_referendum_result_by_regions",
                   args |-> <<referendum_and_areas>>,
                   result |-> compute_referendum_result_by_regions(referendum_and_areas)]
    /\ UNCHANGED <<disk, pc, locals, stdout, figure>>

\* the drawing is a side effect of a call that gets as far as line 117
Call_plot_referendum_map ==
    /\ pc = "imported"
    /\ call = NoCall
    /\ \E referendum_result_by_regions \in {SampleResults} :
          LET r == plot_referendum_map(referendum_result_by_regions)
          IN  /\ call' = [fn |-> "plot_referendum_map",
                          args |-> <<referendum_result_by_regions>>,
                          result |-> r]
              /\ figure' = IF r.status = "returned" THEN "drawn" ELSE figure
    /\ UNCHANGED <<disk, pc, locals, stdout>>

NextAreas ==
    \/ MainLoad
    \/ MainAreas
    \/ Call_merge_regions_and_departments

SpecAreas == InitAreas /\ [][NextAreas]_vars

NextMerge ==
    \/ MainLoad
    \/ MainAreas
    \/ MainMerge
    \/ Call_merge_referendum_and_areas

SpecMerge == InitAreas /\ [][NextMerge]_vars

Next ==
    \/ MainLoad
    \/ MainAreas
    \/ MainMerge
    \/ MainAggregateAndReport
    \/ Call_compute_referendum_result_by_regions
    \/ Call_plot_referendum_map

Spec == Init /\ [][Next]_vars

(***************************************************************************)
(* Properties                                                              *)
(***************************************************************************)
ReturnedFrom(fn) == call.fn = fn /\ call.result.status = "returned"

Rows(t) == SeqToSet(t.rows)

\* the number a department code stands for, when it looks like a number
LooksNumeric(cell) ==
    cell.kind = "int" \/ (cell.kind = "str" /\ IsNumericText(cell.s))

CodeNumber(cell) == IF cell.kind = "int" THEN cell.n ELSE ParseInt(cell.s)

\* two codes that differ at most by leading zeros or by their type
SameDepartmentCode(x, y) ==
    IF LooksNumeric(x) /\ LooksNumeric(y) THEN CodeNumber(x) = CodeNumber(y)
    ELSE x = y

\* the area table of the files on disk
DiskAreas == area_fusion(load_data[2], load_data[3]).table

\* C1: merge_referendum_and_areas matches a ballot row whose department code
\* differs from a department's code only by leading zeros or type to that
\* department: its code_reg, name_reg and name_dep are the department's, not
\* null.
C1_LeadingZerosMatch ==
    ReturnedFrom("merge_referendum_and_areas") =>
        \A o \in Rows(call.result.table) :
            (\E a \in Rows(DiskAreas) :
                SameDepartmentCode(o["Department code"], a.code_dep))
            => /\ o.name_dep # NaN
               /\ \E a \in Rows(DiskAreas) :
                     /\ SameDepartmentCode(o["Department code"], a.code_dep)
                     /\ o.name_dep = a.name_dep
                     /\ o.name_reg = a.name_reg
                     /\ KeyEq(o.code_reg, a.code_reg)

NoOverseasRow(t) ==
    \A o \in Rows(t) :
        ~(o["Department code"].kind = "str" /\ Len(o["Department code"].s) > 0
          /\ o["Department code"].s[1] = "Z")

\* C3: no row of the table merge_referendum_and_areas returns has a
\* 'Department code' starting with "Z", whatever the referendum table.
C3_NoOverseasRows ==
    /\ ReturnedFrom("merge_referendum_and_areas") => NoOverseasRow(call.result.table)
    /\ pc = "merged" => NoOverseasRow(locals.referendum_and_areas)

\* a call that was given an overseas row and another row, and returned rows
C3_Witness ==
    /\ ReturnedFrom("merge_referendum_and_areas")
    /\ \E r \in Rows(call.args[1]) : r["Department code"] = Str(<<"Z", "A">>)
    /\ call.result.table.rows # <<>>

\* C4: merge_regions_and_departments(regions, departments) returns exactly
\* one row per row of the departments table it is given, unmatched
\* departments included.
C4_OneRowPerDepartmentArgument ==
    ReturnedFrom("merge_regions_and_departments") =>
        /\ Len(call.result.table.rows) = Len(call.args[2].rows)
        /\ \A i \in 1..Len(call.args[2].rows) :
              call.result.table.rows[i].code_dep = call.args[2].rows[i].code

\* C5: a stage is a function of the tables passed to it: its result is what
\* its transformation yields on its arguments.
C5_ResultDeterminedByArguments ==
    /\ ReturnedFrom("merge_regions_and_departments")
          => call.result = area_fusion(call.args[1], call.args[2])
    /\ ReturnedFrom("merge_referendum_and_areas")
          => call.result = referendum_fusion(call.args[1], call.args[2])

AreaRowOf(o, d, regions) ==
    /\ o.code_dep = d.code
    /\ o.name_dep = d.name
    /\ IF \E g \in Rows(regions) : KeyEq(g.code, d.region_code)
       THEN \E g \in Rows(regions) :
               /\ KeyEq(g.code, d.region_code)
               /\ KeyEq(o.code_reg, g.code)
               /\ o.name_reg = g.name
       ELSE o.code_reg = NaN /\ o.name_reg = NaN

AreaTableOf(t, regions, departments) ==
    /\ t.columns = <<"code_reg", "name_reg", "code_dep", "name_dep">>
    /\ \A o \in Rows(t) :
          /\ DOMAIN o = {"code_reg", "name_reg", "code_dep", "name_dep"}
          /\ \E d \in Rows(departments) : AreaRowOf(o, d, regions)
    /\ \A d \in Rows(departments) : \E o \in Rows(t) : AreaRowOf(o, d, regions)

\* C9: the table merge_regions_and_departments returns has exactly the
\* columns code_reg, name_reg, code_dep, name_dep; each row carries a
\* department's code and name and the code and name of the region whose code
\* is the department's region_code (the departments and regions being the
\* ones the function reads).
C9_AreaColumnsAndValues ==
    /\ ReturnedFrom("merge_regions_and_departments")
          => AreaTableOf(call.result.table, load_data[2], load_data[3])
    /\ pc = "areas"
          => AreaTableOf(locals.regions_and_departments, load_data[2], load_data[3])

\* a returned area table with a matched and an unmatched department
C9_Witness ==
    /\ ReturnedFrom("merge_regions_and_departments")
    /\ \E o \in Rows(call.result.table) : o.code_reg = NaN
    /\ \E o \in Rows(call.result.table) : o.code_reg # NaN

\* files whose key columns have matching types and whose ballots carry texts
\* as department codes: the first three stages accept them
WellFormedFiles ==
    /\ MergeKeysCompatible(load_data[3], load_data[2], "region_code", "code")
    /\ Dtype(load_data[1], "Department code") = "object"

RECURSIVE SumOf(_, _)
SumOf(rows, c) == IF rows = <<>> THEN 0 ELSE Head(rows)[c].n + SumOf(Tail(rows), c)

\* C2: compute_referendum_result_by_regions returns one row per distinct
\* region name of the merged rows it is given, holding the sums of the five
\* vote columns over the rows of that region.
C2_OneRowPerRegionWithSums ==
    call.fn = "compute_referendum_result_by_regions" /\ WellFormedFiles =>
        /\ call.result.status = "returned"
        /\ LET merged == call.args[1]
               names == {r.name_reg : r \in Rows(merged)} \ {NaN}
               out == call.result.table
           IN  /\ Len(out.rows) = Cardinality(names)
               /\ \A name \in names : \E o \in Rows(out) :
                     /\ o.name_reg = name
                     /\ \A c \in SeqToSet(SumColumns) :
                           o[c].n = SumOf(SelectSeq(merged.rows,
                                             LAMBDA r : r.name_reg = name), c)

\* C8: the table compute_referendum_result_by_regions returns is indexed by
\* code_reg and has exactly the columns name_reg, Registered, Abstentions,
\* Null, Choice A, Choice B.
C8_IndexedByRegionCode ==
    call.fn = "compute_referendum_result_by_regions" /\ WellFormedFiles =>
        /\ call.result.status = "returned"
        /\ call.result.table.index = "code_reg"
        /\ call.result.table.columns = <<"name_reg">> \o SumColumns

\* C6: plot_referendum_map returns the geo-joined table, one row per
\* polygon with its geometry, with a column 'ratio' holding
\* Choice A / (Choice A + Choice B) of the region named like the polygon.
C6_ReturnsRatioColumn ==
    call.fn = "plot_referendum_map" /\ WellFormedFiles =>
        /\ call.result.status = "returned"
        /\ LET out == call.result.table
           IN  /\ Len(out.rows) = Len(disk.geojson.rows)
               /\ {"geometry", "ratio"} \subseteq SeqToSet(out.columns)
               /\ \A o \in Rows(out) : \A g \in Rows(call.args[1]) :
                     g.name_reg = o.nom
                        => o.ratio = rate(g["Choice A"], g["Choice B"])

\* C7: in the table plot_referendum_map returns, the ratio lies in [0,1]
\* where Choice A + Choice B > 0 and is null where it is 0; a zero
\* denominator raises nothing.
C7_RatioWithinUnitInterval ==
    call.fn = "plot_referendum_map" /\ WellFormedFiles =>
        /\ call.result.status = "returned"
        /\ \A o \in Rows(call.result.table) :
              IF IsNumber(o["Choice A"]) /\ o["Choice A"].n + o["Choice B"].n > 0
              THEN o.ratio.kind = "quotient" /\ o.ratio.n <= o.ratio.d
              ELSE o.ratio = NaN

\* C10: on well-formed files the script runs its stages in order to the
\* end: the aggregate is printed, then the map is drawn, and no stage raises.
C10_RunsToCompletion ==
    WellFormedFiles =>
        /\ pc # "crashed"
        /\ figure = "shown" => stdout # <<>>

====
